---- MODULE Spec2Model ----
(***************************************************************************)
(* Steel Mill Slab Design: the waste profile builder                        *)
(* (pre_compute_waste_for_content), the instance constructor (__init__)     *)
(* and the slab partition evaluator (evaluate_solution) of                  *)
(* src/steel_mill_slab_design_problem.py.                                   *)
(*                                                                          *)
(* Python lists are modelled as sequences; order indices stay 0-based as in *)
(* the source, so order i is element i + 1 of quantities_data/colors_data.  *)
(* The waste table is a function on 0..sum_size_orders (a Python list of    *)
(* sum_size_orders + 1 entries).  1e6 is the integer 1000000: every value   *)
(* the evaluator forms is an integer far below 2^53, so the float sum is    *)
(* exact.                                                                   *)
(***************************************************************************)
EXTENDS Integers, Sequences, FiniteSets

VARIABLES
    slab_sizes,         \* self.slab_sizes (tokens of the instance file)
    quantities_data,    \* self.quantities_data
    colors_data,        \* self.colors_data
    sum_size_orders,    \* self.sum_size_orders
    max_size,           \* self.max_size
    waste_for_content,  \* self.waste_for_content, None until __init__ returns
    status,             \* "new", "ready", or how __init__ ended: "exit", "IndexError"
    candidate,          \* the candidate the search driver currently holds
    evaluated,          \* TRUE when result is evaluate_solution(candidate)
    result              \* value returned by the last evaluate_solution call

vars == <<slab_sizes, quantities_data, colors_data, sum_size_orders, max_size,
          waste_for_content, status, candidate, evaluated, result>>

instance == <<slab_sizes, quantities_data, colors_data, sum_size_orders, max_size,
              waste_for_content, status>>

----------------------------------------------------------------------------
(* Bounds of the explored inputs. *)

MaxSlabSizes == 2   \* length of a slab-size list handed to the builder
MaxOrders == 3      \* nb_orders
MaxSlabs == 2       \* slabs in a candidate
MaxEntries == 3     \* order indices in a candidate, over all its slabs

SizeValues == 1..3
Quantities == 1..2
Colors == 1..4

None == "None"    \* a field not assigned yet, a value not returned yet
NoTable == <<>>   \* self.waste_for_content before pre_compute_waste_for_content returns

(* Program constants. *)
PenaltyUnit == 1000000
nb_colors_max_slab == 2

----------------------------------------------------------------------------
(* Helpers for Python built-ins. *)

SeqsUpTo(S, n) == UNION {[1..k -> S] : k \in 0..n}

RECURSIVE SumSeq(_)
SumSeq(s) == IF s = <<>> THEN 0 ELSE Head(s) + SumSeq(Tail(s))

Range(s) == {s[k] : k \in DOMAIN s}

RECURSIVE Flatten(_)
Flatten(ss) == IF ss = <<>> THEN <<>> ELSE Head(ss) \o Flatten(Tail(ss))

nb_orders == Len(quantities_data)

----------------------------------------------------------------------------
(* pre_compute_waste_for_content(slab_sizes, sum_size_orders).              *)
(* The loop over slab sizes, one size per unfolding.  The record holds how  *)
(* the call ended and the local list waste_for_content at that moment; only *)
(* outcome "ok" reaches the return statement.                               *)

\* Variant: the inner loop starts at prev_size instead of prev_size + 1.
RECURSIVE BuildFromInclusive(_, _, _, _, _)
BuildFromInclusive(sizes, k, prev_size, tab, ub) ==
    IF k > Len(sizes) THEN [outcome |-> "ok", table |-> tab]
    ELSE LET size == sizes[k]
             written == [c \in 0..ub |->
                            IF c >= prev_size /\ c < size THEN size - c ELSE tab[c]]
         IN  IF size < prev_size THEN [outcome |-> "exit", table |-> tab]
             ELSE IF \E c \in prev_size..(size - 1) : c > ub
                  THEN [outcome |-> "IndexError", table |-> written]
                  ELSE BuildFromInclusive(sizes, k + 1, size, written, ub)

\* Variant: the ascending-order test is missing.
RECURSIVE BuildFromUnchecked(_, _, _, _, _)
BuildFromUnchecked(sizes, k, prev_size, tab, ub) ==
    IF k > Len(sizes) THEN [outcome |-> "ok", table |-> tab]
    ELSE LET size == sizes[k]
             written == [c \in 0..ub |->
                            IF c >= prev_size + 1 /\ c < size THEN size - c ELSE tab[c]]
         IN  IF \E c \in (prev_size + 1)..(size - 1) : c > ub
             THEN [outcome |-> "IndexError", table |-> written]
             ELSE BuildFromUnchecked(sizes, k + 1, size, written, ub)

RECURSIVE BuildFrom(_, _, _, _, _)
BuildFrom(sizes, k, prev_size, tab, ub) ==
    IF k > Len(sizes) THEN [outcome |-> "ok", table |-> tab]
    ELSE LET size == sizes[k]
             written == [c \in 0..ub |->
                            IF c >= prev_size + 1 /\ c < size THEN size - c ELSE tab[c]]
         IN  IF size < prev_size THEN [outcome |-> "exit", table |-> tab]
             ELSE IF \E c \in (prev_size + 1)..(size - 1) : c > ub
                  THEN [outcome |-> "IndexError", table |-> written]
                  ELSE BuildFrom(sizes, k + 1, size, written, ub)

pre_compute_waste_for_content(sizes, ub) ==
    BuildFrom(sizes, 1, 0, [c \in 0..ub |-> 0], ub)

----------------------------------------------------------------------------
(* evaluate_solution(candidate), reading the instance fields. *)

SlabColors(slab) == {colors_data[slab[k] + 1] : k \in DOMAIN slab}

Content(slab) == SumSeq([k \in DOMAIN slab |-> quantities_data[slab[k] + 1]])

TableLen == Cardinality(DOMAIN waste_for_content)

\* Variant: the orders of the slab are counted, not their distinct colours.
ColorPenaltyPerOrder(slab) ==
    IF Len(slab) > nb_colors_max_slab
    THEN PenaltyUnit * (Len(slab) - nb_colors_max_slab)
    ELSE 0

ColorPenalty(slab) ==
    IF Cardinality(SlabColors(slab)) > nb_colors_max_slab
    THEN PenaltyUnit * (Cardinality(SlabColors(slab)) - nb_colors_max_slab)
    ELSE 0

\* Variant: the capacity comparison is reversed.
OverflowPenaltyReversed(slab) ==
    IF Content(slab) < max_size THEN PenaltyUnit * (Content(slab) - max_size) ELSE 0

OverflowPenalty(slab) ==
    IF Content(slab) > max_size THEN PenaltyUnit * (Content(slab) - max_size) ELSE 0

\* Variant: the table is consulted only for contents within capacity.
SlabWasteWithinCapacity(slab) ==
    IF Content(slab) <= max_size /\ Content(slab) < TableLen
    THEN waste_for_content[Content(slab)]
    ELSE max_size - Content(slab)

SlabWaste(slab) ==
    IF Content(slab) < TableLen
    THEN waste_for_content[Content(slab)]
    ELSE max_size - Content(slab)

\* Variant: one penalty unit per missing order.
CoveragePenaltyPerOrder(orders_in_candidate) ==
    PenaltyUnit * Cardinality((0..(nb_orders - 1)) \ Range(orders_in_candidate))

\* Variant: the orders are compared with 1..nb_orders.
CoveragePenaltyOneBased(orders_in_candidate) ==
    IF Range(orders_in_candidate) # 1..nb_orders THEN PenaltyUnit ELSE 0

CoveragePenalty(orders_in_candidate) ==
    IF Range(orders_in_candidate) # 0..(nb_orders - 1) THEN PenaltyUnit ELSE 0

RECURSIVE EvalLoop(_, _, _, _)
EvalLoop(slabs, penalty, used_slab_waste, orders_in_candidate) ==
    IF slabs = <<>>
    THEN used_slab_waste + (penalty + CoveragePenalty(orders_in_candidate))
    ELSE LET slab == Head(slabs)
             orders == orders_in_candidate \o slab
         IN  IF Len(slab) = 0
             THEN EvalLoop(Tail(slabs), penalty, used_slab_waste, orders)
             ELSE EvalLoop(Tail(slabs),
                           penalty + ColorPenalty(slab) + OverflowPenalty(slab),
                           used_slab_waste + SlabWaste(slab),
                           orders)

evaluate_solution(cand) == EvalLoop(cand, 0, 0, <<>>)

----------------------------------------------------------------------------
(* Inputs. *)

SizeLists == SeqsUpTo(SizeValues, MaxSlabSizes) \ {<<>>}

\* Slab-size lists in the documented file format: strictly ascending.
AscendingSizeLists ==
    {s \in SeqsUpTo(SizeValues, Cardinality(SizeValues)) \ {<<>>} :
        \A k \in 1..(Len(s) - 1) : s[k] < s[k + 1]}

\* Order lists up to the two symmetries of the evaluator's input: orders are
\* listed by non-decreasing quantity, colours are numbered by first appearance.
QuantityLists(n) ==
    {q \in [1..n -> Quantities] : \A k \in 1..(n - 1) : q[k] <= q[k + 1]}

ColorLists(n) ==
    {c \in [1..n -> Colors] :
        \A k \in 1..n : \/ c[k] = 1
                        \/ \E j \in 1..(k - 1) : c[j] >= c[k] - 1}

\* The scenario of the overflow example: slab sizes [100], orders (60,1), (50,1).
ScenarioSizes == <<100>>
ScenarioQuantities == <<60, 50>>
ScenarioColors == <<1, 1>>

Fresh ==
    /\ sum_size_orders = None
    /\ max_size = None
    /\ waste_for_content = NoTable
    /\ status = "new"
    /\ candidate = <<>>
    /\ evaluated = FALSE
    /\ result = None

Init ==
    /\ \/ /\ slab_sizes \in AscendingSizeLists
          /\ \E n \in 0..MaxOrders :
                /\ quantities_data \in QuantityLists(n)
                /\ colors_data \in ColorLists(n)
       \/ /\ slab_sizes = ScenarioSizes
          /\ quantities_data = ScenarioQuantities
          /\ colors_data = ScenarioColors
    /\ Fresh

\* Any slab-size list, sorted or not, for the builder.
InitBuild ==
    /\ slab_sizes \in SizeLists
    /\ \E n \in 0..MaxOrders :
          /\ quantities_data \in QuantityLists(n)
          /\ colors_data \in ColorLists(n)
    /\ Fresh

(* __init__: the fields read from the file, then the waste profile. *)
Construct ==
    /\ status = "new"
    /\ LET built == pre_compute_waste_for_content(slab_sizes, SumSeq(quantities_data))
       IN  /\ max_size' = slab_sizes[Len(slab_sizes)]
           /\ sum_size_orders' = SumSeq(quantities_data)
           /\ IF built.outcome = "ok"
              THEN /\ waste_for_content' = built.table
                   /\ status' = "ready"
              ELSE /\ waste_for_content' = NoTable
                   /\ status' = built.outcome
    /\ UNCHANGED <<slab_sizes, quantities_data, colors_data, candidate, evaluated, result>>

(* The search driver grows its candidate as random_solution does: a new     *)
(* empty slab, or an order appended to a slab.  Orders enter a slab in      *)
(* non-decreasing index order (random_solution appends them in increasing   *)
(* order); an index may be appended again, and orders may be left out.      *)
AddSlab ==
    /\ status = "ready"
    /\ Len(candidate) < MaxSlabs
    /\ candidate' = Append(candidate, <<>>)
    /\ evaluated' = FALSE
    /\ result' = None
    /\ UNCHANGED instance

PutOrder ==
    /\ status = "ready"
    /\ Len(Flatten(candidate)) < MaxEntries
    /\ \E s \in DOMAIN candidate, i \in 0..(nb_orders - 1) :
          /\ IF Len(candidate[s]) = 0 THEN TRUE
                ELSE candidate[s][Len(candidate[s])] <= i
          /\ candidate' = [candidate EXCEPT ![s] = Append(@, i)]
    /\ evaluated' = FALSE
    /\ result' = None
    /\ UNCHANGED instance

\* Variant: the total is kept from one call to the next.
EvaluateAccumulating ==
    /\ status = "ready"
    /\ result' = evaluate_solution(candidate) + (IF evaluated THEN result ELSE 0)
    /\ evaluated' = TRUE
    /\ UNCHANGED <<instance, candidate>>

(* One call evaluate_solution(candidate). *)
Evaluate ==
    /\ status = "ready"
    /\ result' = evaluate_solution(candidate)
    /\ evaluated' = TRUE
    /\ UNCHANGED <<instance, candidate>>

Next == Construct \/ AddSlab \/ PutOrder \/ Evaluate

Spec == Init /\ [][Next]_vars

SpecBuild == InitBuild /\ [][Construct]_vars

----------------------------------------------------------------------------
(* Vocabulary of the properties. *)

Orders == 0..(nb_orders - 1)

Entries == Flatten(candidate)

Occurrences(i) == Cardinality({k \in DOMAIN Entries : Entries[k] = i})

MissingOrders == {i \in Orders : Occurrences(i) = 0}

DuplicatedOrders == {i \in Orders : Occurrences(i) > 1}

Returned == status = "ready" /\ evaluated

Constructed == status # "new"

NonEmptySlabs == {k \in DOMAIN candidate : candidate[k] # <<>>}

DistinctColors(slab) == Cardinality({colors_data[i + 1] : i \in Range(slab)})

SumOverSlabs(Charge(_)) == SumSeq([k \in DOMAIN candidate |-> Charge(candidate[k])])

TableWaste(slab) == IF slab = <<>> THEN 0 ELSE waste_for_content[Content(slab)]

ExpectedWaste(slab) ==
    IF slab = <<>> THEN 0
    ELSE IF Content(slab) \in DOMAIN waste_for_content
         THEN waste_for_content[Content(slab)]
         ELSE max_size - Content(slab)

ExpectedOverflow(slab) ==
    IF slab # <<>> /\ Content(slab) > max_size
    THEN PenaltyUnit * (Content(slab) - max_size)
    ELSE 0

ExpectedColor(slab) ==
    IF slab # <<>> /\ DistinctColors(slab) > 2
    THEN PenaltyUnit * (DistinctColors(slab) - 2)
    ELSE 0

ExpectedSlabCost(slab) == ExpectedWaste(slab) + ExpectedOverflow(slab) + ExpectedColor(slab)

NonColorSlabCost(slab) == ExpectedWaste(slab) + ExpectedOverflow(slab)

Descending == \E k \in 2..Len(slab_sizes) : slab_sizes[k] < slab_sizes[k - 1]

SmallestSizeAtLeast(c) ==
    CHOOSE s \in Range(slab_sizes) :
        s >= c /\ \A t \in Range(slab_sizes) : t >= c => s <= t

LargestSize == CHOOSE s \in Range(slab_sizes) : \A t \in Range(slab_sizes) : t <= s

InScenario ==
    /\ slab_sizes = ScenarioSizes
    /\ quantities_data = ScenarioQuantities
    /\ colors_data = ScenarioColors
    /\ candidate = << <<0, 1>> >>
    /\ Returned

----------------------------------------------------------------------------
(* C1: a candidate that holds every order exactly once, every slab within   *)
(* max_size and with at most 2 colours, is scored exactly the sum of        *)
(* waste_for_content[content] over its nonempty slabs: no penalty.          *)
C1_FeasibleScoreIsTableWaste ==
    ( /\ Returned
      /\ \A i \in Orders : Occurrences(i) = 1
      /\ \A k \in NonEmptySlabs :
            /\ Content(candidate[k]) <= max_size
            /\ DistinctColors(candidate[k]) <= 2 )
    => result = SumOverSlabs(TableWaste)

C1_Witness ==
    /\ Returned
    /\ nb_orders >= 2
    /\ \A i \in Orders : Occurrences(i) = 1
    /\ Cardinality(NonEmptySlabs) >= 2
    /\ \A k \in NonEmptySlabs :
          /\ Content(candidate[k]) <= max_size
          /\ DistinctColors(candidate[k]) <= 2
    /\ result > 0

(* C2: in a table the builder returned, entry c <= max_size is 0 when c is  *)
(* 0 or a slab size and (smallest slab size >= c) - c otherwise; entries    *)
(* beyond the largest slab size are 0.                                      *)
C2_TableEntries ==
    status = "ready" =>
        \A c \in DOMAIN waste_for_content :
            /\ c <= max_size =>
                  waste_for_content[c] =
                      IF c = 0 \/ c \in Range(slab_sizes) THEN 0
                      ELSE SmallestSizeAtLeast(c) - c
            /\ c > LargestSize => waste_for_content[c] = 0

C2_Witness ==
    /\ status = "ready"
    /\ Len(slab_sizes) >= 2
    /\ \E c \in DOMAIN waste_for_content :
          /\ slab_sizes[1] < c
          /\ c < max_size
          /\ waste_for_content[c] > 0
    /\ \E c \in DOMAIN waste_for_content : c > LargestSize

(* C3: when at least one order is absent from the candidate, the score is   *)
(* the waste and the colour and overflow penalties plus exactly one         *)
(* 1,000,000, however many orders are absent.                               *)
C3_OneCoveragePenalty ==
    (Returned /\ MissingOrders # {})
    => result = SumOverSlabs(ExpectedSlabCost) + PenaltyUnit

C3_Witness ==
    /\ Returned
    /\ Cardinality(MissingOrders) >= 2
    /\ NonEmptySlabs # {}
    /\ result = SumOverSlabs(ExpectedSlabCost) + PenaltyUnit

(* C4, as claimed: a candidate in which an order index appears more than    *)
(* once is charged the flat coverage penalty of 1,000,000.                  *)
C4_DuplicateIsPenalised ==
    (Returned /\ DuplicatedOrders # {})
    => result = SumOverSlabs(ExpectedSlabCost) + PenaltyUnit

(* C5: each nonempty slab with k distinct colours contributes exactly       *)
(* 1,000,000 * (k - 2) of colour penalty when k > 2 and none when k <= 2;   *)
(* an empty slab contributes nothing.                                       *)
C5_ColorPenaltyPerSlab ==
    Returned =>
        result - CoveragePenalty(Entries) - SumOverSlabs(NonColorSlabCost)
            = SumOverSlabs(ExpectedColor)

C5_Witness ==
    /\ Returned
    /\ Len(candidate) >= 2
    /\ \E k \in DOMAIN candidate : candidate[k] = <<>>
    /\ \E k \in NonEmptySlabs : DistinctColors(candidate[k]) > 2
    /\ SumOverSlabs(ExpectedColor) >= PenaltyUnit

(* C6, as claimed: slab sizes [100], orders (60,1), (50,1), candidate       *)
(* [[0, 1]] is scored 9,999,990.                                            *)
C6_ScenarioScoreClaimed == InScenario => result = 9999990

(* C6, amended: in that scenario the content 110 lies inside the table of   *)
(* 111 entries, so the waste is waste_for_content[110] = 0 and the score is *)
(* the overflow penalty alone, 10,000,000.                                  *)
C6_ScenarioScore ==
    InScenario =>
        /\ Content(candidate[1]) = 110
        /\ Content(candidate[1]) \in DOMAIN waste_for_content
        /\ waste_for_content[110] = 0
        /\ result = 10000000

C6_Witness == InScenario /\ max_size = 100 /\ TableLen = 111

(* C7: when the slab-size list has an element smaller than its predecessor, *)
(* the builder ends in failure and no table is returned.                    *)
C7_DescendingFails ==
    (Constructed /\ Descending)
    => /\ status \in {"exit", "IndexError"}
       /\ waste_for_content = NoTable

C7_Witness ==
    /\ Descending
    /\ status = "exit"
    /\ slab_sizes[1] > 1
    /\ waste_for_content = NoTable

(* C8, as claimed: for every ascending list of positive slab sizes and      *)
(* every upper bound the builder returns a table of upper bound + 1         *)
(* entries.                                                                 *)
C8_BuilderTotalOnAscending ==
    (Constructed /\ ~Descending)
    => /\ status = "ready"
       /\ Cardinality(DOMAIN waste_for_content) = sum_size_orders + 1

(* C9: a call of evaluate_solution leaves the instance and the candidate    *)
(* unchanged, and a second call on the same candidate returns the same      *)
(* value.                                                                   *)
C9_EvaluateIsPure ==
    [][evaluated' =>
          /\ instance' = instance
          /\ candidate' = candidate
          /\ evaluated => result' = result]_vars

C9_Witness ==
    /\ Returned
    /\ NonEmptySlabs # {}
    /\ result > 0

(* C10: with order indices in 0..nb_orders-1 the score is never negative,   *)
(* also when a repeated index takes a slab's content past the end of the    *)
(* table and the waste is the fallback max_size - content.                  *)
C10_ScoreNonNegative == Returned => result >= 0

C10_Witness ==
    /\ Returned
    /\ \E k \in NonEmptySlabs :
          /\ Content(candidate[k]) >= TableLen
          /\ Content(candidate[k]) > max_size
          /\ SlabWaste(candidate[k]) < 0

====
